---- MODULE Spec2Model ----
(***************************************************************************)
(* camtrack.cpp: the smoothing filters (SmoothMoverLPF,                    *)
(* SmoothMoverBoundedAccel, SmoothMoverCompose), the framing controller    *)
(* SmoothMovingRect (constructor, operator<<, scale) and the per-frame     *)
(* loop of main with its trackbar callbacks.                               *)
(*                                                                         *)
(* Values of type prec are modelled as exact rationals <<num, den>> with   *)
(* den > 0 in lowest terms: the arithmetic of the model is the real        *)
(* arithmetic of the source without float rounding.  std::sqrt is the one  *)
(* operation that leaves the rationals; it is rounded down to a multiple   *)
(* of 1/SqrtDen.                                                           *)
(***************************************************************************)
EXTENDS Integers, Sequences, FiniteSets, TLC

VARIABLES
  kLPFSlewRate,          \* global, line 32
  kBoundedMaxSlew,       \* global, line 33
  kBoundedMaxSlewAccel,  \* global, line 34
  kZoom,                 \* global, line 35
  kEyes,                 \* global, line 36
  classifierPyrCount,    \* main's local, line 346
  roi,                   \* the SmoothMovingRect of main, line 410
  faces_cpu,             \* detections of the current frame, line 406
  faceBounds,            \* the rectangle last fed to roi, line 433
  scaleLocals,           \* x, y, width, height at the 5 program points of the last scale call on roi
  warpSrc,               \* the three source points handed to getAffineTransform, line 447
  frames                 \* number of loop iterations (observe calls in the harnesses)

vars == <<kLPFSlewRate, kBoundedMaxSlew, kBoundedMaxSlewAccel, kZoom, kEyes,
          classifierPyrCount, roi, faces_cpu, faceBounds, scaleLocals,
          warpSrc, frames>>

globals == <<kLPFSlewRate, kBoundedMaxSlew, kBoundedMaxSlewAccel, kZoom, kEyes,
             classifierPyrCount>>

----------------------------------------------------------------------------
(* Bounds of the model *)

\* loop iterations explored in the main program
MaxFrames == 2
\* observe calls explored in the controller harness
MaxObserves == 3
\* ticks explored when the same rectangle is observed on every tick
MaxTicks == 10
\* std::sqrt returns a multiple of 1/SqrtDen
SqrtDen == 4
\* a smoothed value is fed again only while its denominator is at most MaxDen
MaxDen == 10000

----------------------------------------------------------------------------
(* prec arithmetic: exact rationals *)

RECURSIVE GCD(_, _)
GCD(a, b) == IF b = 0 THEN a ELSE GCD(b, a % b)

Abs(n) == IF n < 0 THEN -n ELSE n

\* the rational n/d, d > 0, in lowest terms
Q(n, d) == IF n = 0 THEN <<0, 1>>
           ELSE LET g == GCD(Abs(n), d) IN <<n \div g, d \div g>>

OfInt(n) == <<n, 1>>
Zero == <<0, 1>>
One == <<1, 1>>
Two == <<2, 1>>

Neg(a) == <<-a[1], a[2]>>

Add(a, b) == LET g == GCD(a[2], b[2])
             IN Q(a[1] * (b[2] \div g) + b[1] * (a[2] \div g), (a[2] \div g) * b[2])

Sub(a, b) == Add(a, Neg(b))

Mul(a, b) == IF a[1] = 0 \/ b[1] = 0 THEN Zero
             ELSE LET g1 == GCD(Abs(a[1]), b[2])
                      g2 == GCD(Abs(b[1]), a[2])
                  IN Q((a[1] \div g1) * (b[1] \div g2), (a[2] \div g2) * (b[2] \div g1))

\* 1/b, b # 0
Inv(b) == IF b[1] > 0 THEN <<b[2], b[1]>> ELSE <<-b[2], -b[1]>>

Div(a, b) == Mul(a, Inv(b))

\* a < b and a <= b, by the sign of a - b over the least common denominator
Lt(a, b) == Sub(a, b)[1] < 0

Le(a, b) == Sub(a, b)[1] <= 0

AbsQ(a) == <<Abs(a[1]), a[2]>>

\* floor of the square root of a natural number
RECURSIVE IsqrtFrom(_, _)
IsqrtFrom(n, k) == IF (k + 1) * (k + 1) > n THEN k ELSE IsqrtFrom(n, k + 1)

Isqrt(n) == IsqrtFrom(n, 0)

\* floor(a * k) for a >= 0 and a natural k, without forming a[1] * k
FloorMul(a, k) == (a[1] \div a[2]) * k + ((a[1] % a[2]) * k) \div a[2]

\* std::sqrt(a), a >= 0, rounded down to a multiple of 1/SqrtDen
Sqrt(a) == Q(Isqrt(FloorMul(a, SqrtDen * SqrtDen)), SqrtDen)

----------------------------------------------------------------------------
(* Rectangles *)

\* cv::Rect (int fields)
Rect(x, y, w, h) == [x |-> x, y |-> y, width |-> w, height |-> h]

\* conversion cv::Rect -> cv::Rect_<prec>
ToPrec(r) == [x |-> OfInt(r.x), y |-> OfInt(r.y), width |-> OfInt(r.width), height |-> OfInt(r.height)]

Min(a, b) == IF a < b THEN a ELSE b
Max(a, b) == IF a > b THEN a ELSE b

\* cv::Rect::operator|=, the minimal rectangle enclosing a and b
RectUnion(a, b) ==
  IF a.width <= 0 \/ a.height <= 0 THEN b
  ELSE IF b.width <= 0 \/ b.height <= 0 THEN a
  ELSE LET x1 == Min(a.x, b.x)
           y1 == Min(a.y, b.y)
       IN Rect(x1, y1, Max(a.x + a.width, b.x + b.width) - x1,
               Max(a.y + a.height, b.y + b.height) - y1)

RECURSIVE rectBoundFrom(_, _, _)
rectBoundFrom(rects, i, rv) ==
  IF i > Len(rects) THEN rv ELSE rectBoundFrom(rects, i + 1, RectUnion(rv, rects[i]))

\* rectBound(rects), rects not empty
rectBound(rects) == rectBoundFrom(rects, 2, rects[1])

----------------------------------------------------------------------------
(* Smoothers *)

\* SmoothMoverLPF::operator<<
LPFFeed(m, target) ==
  [s_ |-> Add(Mul(m.s_, Sub(One, kLPFSlewRate)), Mul(target, kLPFSlewRate))]

\* SmoothMoverLPF::operator T
LPFValue(m) == m.s_

\* BoundedAccelFeed without the clamp of the step onto the target when moving down
BoundedAccelFeedNoBrake(m, target) ==
  IF Lt(target, m.s_) THEN
    LET d1 == Sub(m.ds_, kBoundedMaxSlewAccel)
        d2 == IF Lt(d1, Neg(kBoundedMaxSlew)) THEN Neg(kBoundedMaxSlew) ELSE d1
    IN [s_ |-> Add(m.s_, d2), ds_ |-> d2]
  ELSE IF Lt(m.s_, target) THEN
    LET d1 == Add(m.ds_, kBoundedMaxSlewAccel)
        d2 == IF Lt(kBoundedMaxSlew, d1) THEN kBoundedMaxSlew ELSE d1
        d3 == IF Lt(target, Add(m.s_, d2)) THEN Sub(m.s_, target) ELSE d2
    IN [s_ |-> Add(m.s_, d3), ds_ |-> d3]
  ELSE m

\* BoundedAccelFeed without the clamp of ds_ to -kBoundedMaxSlew
BoundedAccelFeedNoCap(m, target) ==
  IF Lt(target, m.s_) THEN
    LET d1 == Sub(m.ds_, kBoundedMaxSlewAccel)
        d3 == IF Lt(Add(m.s_, d1), target) THEN Sub(target, m.s_) ELSE d1
    IN [s_ |-> Add(m.s_, d3), ds_ |-> d3]
  ELSE IF Lt(m.s_, target) THEN
    LET d1 == Add(m.ds_, kBoundedMaxSlewAccel)
        d2 == IF Lt(kBoundedMaxSlew, d1) THEN kBoundedMaxSlew ELSE d1
        d3 == IF Lt(target, Add(m.s_, d2)) THEN Sub(m.s_, target) ELSE d2
    IN [s_ |-> Add(m.s_, d3), ds_ |-> d3]
  ELSE m

\* SmoothMoverBoundedAccel::operator<<
BoundedAccelFeed(m, target) ==
  IF Lt(target, m.s_) THEN
    LET d1 == Sub(m.ds_, kBoundedMaxSlewAccel)
        d2 == IF Lt(d1, Neg(kBoundedMaxSlew)) THEN Neg(kBoundedMaxSlew) ELSE d1
        d3 == IF Lt(Add(m.s_, d2), target) THEN Sub(target, m.s_) ELSE d2
    IN [s_ |-> Add(m.s_, d3), ds_ |-> d3]
  ELSE IF Lt(m.s_, target) THEN
    LET d1 == Add(m.ds_, kBoundedMaxSlewAccel)
        d2 == IF Lt(kBoundedMaxSlew, d1) THEN kBoundedMaxSlew ELSE d1
        d3 == IF Lt(target, Add(m.s_, d2)) THEN Sub(m.s_, target) ELSE d2
    IN [s_ |-> Add(m.s_, d3), ds_ |-> d3]
  ELSE m

\* SmoothMoverBoundedAccel::operator T
BoundedAccelValue(m) == m.s_

\* ComposeFeed with the low-pass stage fed the raw target
ComposeFeedRaw(c, target) ==
  [r_ |-> BoundedAccelFeed(c.r_, target), s_ |-> LPFFeed(c.s_, target)]

\* SmoothMoverCompose::operator<<
ComposeFeed(c, target) ==
  LET r == BoundedAccelFeed(c.r_, target)
  IN [r_ |-> r, s_ |-> LPFFeed(c.s_, BoundedAccelValue(r))]

\* SmoothMoverCompose::operator T
ComposeValue(c) == LPFValue(c.s_)

\* SmoothMoverCompose(initial); ds_ has no initializer, ds is the value it happens to hold
ComposeInit(initial, ds) ==
  [r_ |-> [s_ |-> initial, ds_ |-> ds], s_ |-> [s_ |-> initial]]

----------------------------------------------------------------------------
(* SmoothMovingRect *)

\* SmoothMovingRect(bounds, aspect) for a cv::Rect bounds
Construct(bounds, aspect, dsX, dsY) ==
  [bounds_  |-> ToPrec(bounds),
   aspect_  |-> aspect,
   centerX_ |-> ComposeInit(Add(OfInt(bounds.x), Div(OfInt(bounds.width), Two)), dsX),
   centerY_ |-> ComposeInit(Add(OfInt(bounds.y), Div(OfInt(bounds.height), Two)), dsY),
   size_    |-> [s_ |-> OfInt(bounds.width * bounds.height)]]

\* the three targets operator<< derives from its argument
TargetX(t) == Add(t.x, Div(t.width, Two))
TargetY(t) == Add(t.y, Div(t.height, Two))
TargetSize(t) == Mul(t.width, t.height)

\* SmoothMovingRect::operator<<(target), target a cv::Rect_<prec>
Observe(r, target) ==
  [r EXCEPT !.centerX_ = ComposeFeed(@, TargetX(target)),
            !.centerY_ = ComposeFeed(@, TargetY(target)),
            !.size_    = LPFFeed(@, TargetSize(target))]

\* scale, lines 181-186: the rectangle before clamping
ScaleStart(r, factor, verticalPositioning) ==
  LET size   == Mul(LPFValue(r.size_), factor)
      aspect == r.aspect_
      height == Sqrt(Div(size, aspect))
      width  == Mul(aspect, height)
  IN [x      |-> Sub(ComposeValue(r.centerX_), Div(width, Two)),
      y      |-> Sub(ComposeValue(r.centerY_), Mul(height, verticalPositioning)),
      width  |-> width,
      height |-> height]

\* scale, lines 201-206
ClampLeft(l, aspect) ==
  IF Lt(l.x, Zero) THEN
    LET delta == Neg(l.x)
    IN [x      |-> Zero,
        y      |-> l.y,
        width  |-> Sub(l.width, Mul(Two, delta)),
        height |-> Sub(l.height, Div(Mul(Two, delta), aspect))]
  ELSE l

\* ClampTop with the width shrunk by 2 * delta, not by 2 * delta * aspect
ClampTopNoAspect(l, aspect) ==
  IF Lt(l.y, Zero) THEN
    LET delta == Neg(l.y)
    IN [x      |-> l.x,
        y      |-> Zero,
        width  |-> Sub(l.width, Mul(Two, delta)),
        height |-> Sub(l.height, Mul(Two, delta))]
  ELSE l

\* scale, lines 207-212
ClampTop(l, aspect) ==
  IF Lt(l.y, Zero) THEN
    LET delta == Neg(l.y)
    IN [x      |-> l.x,
        y      |-> Zero,
        width  |-> Sub(l.width, Mul(Mul(Two, delta), aspect)),
        height |-> Sub(l.height, Mul(Two, delta))]
  ELSE l

\* scale, lines 213-221
ClampRight(l, bounds, aspect) ==
  LET right        == Add(l.x, l.width)
      bounds_right == Add(bounds.x, bounds.width)
  IN IF Lt(bounds_right, right) THEN
       LET delta == Sub(right, bounds_right)
       IN [x      |-> Add(l.x, delta),
           y      |-> Add(l.y, Div(delta, aspect)),
           width  |-> Sub(l.width, Mul(Two, delta)),
           height |-> Sub(l.height, Div(Mul(Two, delta), aspect))]
     ELSE l

\* scale, lines 222-230
ClampBottom(l, bounds, aspect) ==
  LET bottom        == Add(l.y, l.height)
      bounds_bottom == Add(bounds.y, bounds.height)
  IN IF Lt(bounds_bottom, bottom) THEN
       LET delta == Sub(bottom, bounds_bottom)
       IN [x      |-> Add(l.x, Mul(delta, aspect)),
           y      |-> Add(l.y, delta),
           width  |-> Sub(l.width, Mul(Mul(Two, delta), aspect)),
           height |-> Sub(l.height, Mul(Two, delta))]
     ELSE l

\* SmoothMovingRect::scale: its locals before the clamps and after each of them
ScaleSteps(r, factor, verticalPositioning) ==
  LET l0 == ScaleStart(r, factor, verticalPositioning)
      l1 == ClampLeft(l0, r.aspect_)
      l2 == ClampTop(l1, r.aspect_)
      l3 == ClampRight(l2, r.bounds_, r.aspect_)
      l4 == ClampBottom(l3, r.bounds_, r.aspect_)
  IN <<l0, l1, l2, l3, l4>>

\* the value scale returns, line 240
ScaleResult(steps) == steps[5]

----------------------------------------------------------------------------
(* Configuration: the trackbar callbacks of main *)

RECURSIVE Pow10(_)
Pow10(k) == IF k = 0 THEN 1 ELSE 10 * Pow10(k - 1)

\* exp10(pos / -10.0), for the positions that are multiples of 10
LPFWeight(pos) == Q(1, Pow10(pos \div 10))

\* pos / 10.0
SlewVel(pos) == Q(pos, 10)

\* pos / 1000.0
SlewAccel(pos) == Q(pos, 1000)

\* (pos+1) / 10.0
ZoomOf(pos) == Q(pos + 1, 10)

\* pos / 120.0
EyesOf(pos) == Q(pos, 120)

kOutWidth == 640
kOutHeight == 480
kOutAspect == Q(kOutWidth, kOutHeight)

\* trackbar positions explored
LPFPositions == {0}
VelPositions == {0, 20}
AccelPositions == {200}
ZoomPositions == {9}
EyesPositions == {120}
PyrPositions == {0, 1}

\* frame sizes the camera reports
CamSizes == {<<8, 6>>}

\* values the uninitialized ds_ of centerX_ and centerY_ may hold
UninitDs == {<<Zero, Zero>>, <<OfInt(-1), <<1, 2>>>>}

TrackbarLPF ==
  \E pos \in LPFPositions :
    /\ kLPFSlewRate' = LPFWeight(pos)
    /\ UNCHANGED <<kBoundedMaxSlew, kBoundedMaxSlewAccel, kZoom, kEyes, classifierPyrCount,
                   roi, faces_cpu, faceBounds, scaleLocals, warpSrc, frames>>

TrackbarVel ==
  \E pos \in VelPositions :
    /\ kBoundedMaxSlew' = SlewVel(pos)
    /\ UNCHANGED <<kLPFSlewRate, kBoundedMaxSlewAccel, kZoom, kEyes, classifierPyrCount,
                   roi, faces_cpu, faceBounds, scaleLocals, warpSrc, frames>>

TrackbarAccel ==
  \E pos \in AccelPositions :
    /\ kBoundedMaxSlewAccel' = SlewAccel(pos)
    /\ UNCHANGED <<kLPFSlewRate, kBoundedMaxSlew, kZoom, kEyes, classifierPyrCount,
                   roi, faces_cpu, faceBounds, scaleLocals, warpSrc, frames>>

TrackbarZoom ==
  \E pos \in ZoomPositions :
    /\ kZoom' = ZoomOf(pos)
    /\ UNCHANGED <<kLPFSlewRate, kBoundedMaxSlew, kBoundedMaxSlewAccel, kEyes,
                   classifierPyrCount, roi, faces_cpu, faceBounds, scaleLocals, warpSrc,
                   frames>>

TrackbarEyes ==
  \E pos \in EyesPositions :
    /\ kEyes' = EyesOf(pos)
    /\ UNCHANGED <<kLPFSlewRate, kBoundedMaxSlew, kBoundedMaxSlewAccel, kZoom,
                   classifierPyrCount, roi, faces_cpu, faceBounds, scaleLocals, warpSrc,
                   frames>>

TrackbarPrescale ==
  \E pos \in PyrPositions :
    /\ classifierPyrCount' = pos
    /\ UNCHANGED <<kLPFSlewRate, kBoundedMaxSlew, kBoundedMaxSlewAccel, kZoom, kEyes,
                   roi, faces_cpu, faceBounds, scaleLocals, warpSrc, frames>>

----------------------------------------------------------------------------
(* The frame loop of main *)

RECURSIVE Pow2(_)
Pow2(k) == IF k = 0 THEN 1 ELSE 2 * Pow2(k - 1)

\* x << k
Shl(x, k) == x * Pow2(k)

\* size of a side after k calls of pyrDown
RECURSIVE PyrSide(_, _)
PyrSide(n, k) == IF k = 0 THEN n ELSE PyrSide((n + 1) \div 2, k - 1)

\* rectangles the classifier reports, in the coordinates of the image it is given
FaceA == Rect(0, 0, 2, 2)
FaceB == Rect(1, 1, 3, 2)
FaceC == Rect(5, 3, 3, 3)
FaceLists == {<<>>, <<FaceC>>, <<FaceA, FaceB>>}

\* detectMultiScale + convert: any list of rectangles inside the classified image
Detections(w, h) ==
  {fs \in FaceLists :
     \A i \in 1..Len(fs) : fs[i].x + fs[i].width <= w /\ fs[i].y + fs[i].height <= h}

\* the three source points of getAffineTransform, lines 447-450
WarpPoints(r) ==
  << <<r.x, r.y>>, <<r.x, Add(r.y, r.height)>>, <<Add(r.x, r.width), Add(r.y, r.height)>> >>

\* the rectangle the last call of scale returned
xmit == scaleLocals[5]

\* the state on entry to the loop.  Line 377 sets kBoundedMaxSlew to 10 / 10.0 and
\* line 383 sets it again, to 75 / 1000.0; nothing assigns kBoundedMaxSlewAccel, which
\* keeps the zero a global starts with.  Line 389 sets kZoom to 60 / 10.0.
Init ==
  /\ kLPFSlewRate = LPFWeight(20)
  /\ kBoundedMaxSlew = Q(75, 1000)
  /\ kBoundedMaxSlewAccel = Zero
  /\ kZoom = Q(60, 10)
  /\ kEyes = EyesOf(40)
  /\ classifierPyrCount = 0
  /\ \E sz \in CamSizes, ds \in UninitDs :
       roi = Construct(Rect(0, 0, sz[1], sz[2]), kOutAspect, ds[1], ds[2])
  /\ faces_cpu = <<>>
  /\ faceBounds = Rect(0, 0, 0, 0)
  /\ scaleLocals = <<>>
  /\ warpSrc = <<>>
  /\ frames = 0

\* the denominators of the low-pass states of r are at most MaxDen
Representable(r) ==
  /\ r.centerX_.s_.s_[2] <= MaxDen
  /\ r.centerY_.s_.s_[2] <= MaxDen
  /\ r.size_.s_[2] <= MaxDen

\* faceBounds of a frame, lines 433-439: default-constructed when nothing was detected
FaceBoundsOf(faces, pyr) ==
  IF Len(faces) > 0
  THEN LET unscaled == rectBound(faces)
       IN Rect(Shl(unscaled.x, pyr), Shl(unscaled.y, pyr),
               Shl(unscaled.width, pyr), Shl(unscaled.height, pyr))
  ELSE Rect(0, 0, 0, 0)

\* Detect feeding faceBounds whether or not anything was detected
DetectAlways(r, faces, pyr) == Observe(r, ToPrec(FaceBoundsOf(faces, pyr)))

\* roi after lines 433-441: fed only when something was detected
Detect(r, faces, pyr) ==
  IF Len(faces) > 0 THEN Observe(r, ToPrec(FaceBoundsOf(faces, pyr))) ELSE r

\* one iteration of the while loop, lines 415-509
Frame ==
  /\ frames < MaxFrames
  /\ \E faces \in Detections(PyrSide(roi.bounds_.width[1], classifierPyrCount),
                             PyrSide(roi.bounds_.height[1], classifierPyrCount)) :
       /\ Len(faces) > 0 => Representable(roi)
       /\ LET newRoi == Detect(roi, faces, classifierPyrCount)
              steps  == ScaleSteps(newRoi, kZoom, kEyes)
          IN /\ faces_cpu' = faces
             /\ faceBounds' = FaceBoundsOf(faces, classifierPyrCount)
             /\ roi' = newRoi
             /\ scaleLocals' = steps
             /\ warpSrc' = WarpPoints(ScaleResult(steps))
  /\ frames' = frames + 1
  /\ UNCHANGED globals

Next ==
  \/ TrackbarLPF
  \/ TrackbarVel
  \/ TrackbarAccel
  \/ TrackbarZoom
  \/ TrackbarEyes
  \/ TrackbarPrescale
  \/ Frame

Spec == Init /\ [][Next]_vars

----------------------------------------------------------------------------
(* The controller on its own: any bounds the constructor accepts, any        *)
(* positive caps, any sequence of observed rectangles, any zoom and bias    *)

\* scene bounds given to the constructor
HarnessBounds == {Rect(0, 0, 8, 6), Rect(2, 1, 8, 6)}

\* aspect ratios given to the constructor
HarnessAspects == {kOutAspect, Two}

\* <<kLPFSlewRate, kBoundedMaxSlew, kBoundedMaxSlewAccel>>, all positive
HarnessRates == {<<One, One, <<1, 2>>>>, <<<<1, 2>>, Two, Two>>, <<<<1, 2>>, One, <<1, 5>>>>}

\* rectangles given to operator<<
HarnessRects == {Rect(0, 0, 2, 2), Rect(6, 4, 4, 2), Rect(3, 1, 3, 4)}

\* values the uninitialized ds_ of centerX_ and centerY_ may hold
HarnessDs == {<<Zero, Zero>>, <<OfInt(-3), <<1, 2>>>>, <<Two, OfInt(-1)>>}

\* arguments given to scale
HarnessFactors == {<<1, 2>>, One, OfInt(6)}
HarnessBiases == {Zero, <<1, 3>>, One}

InitHarness(dsValues) ==
  /\ \E rates \in HarnessRates :
       /\ kLPFSlewRate = rates[1]
       /\ kBoundedMaxSlew = rates[2]
       /\ kBoundedMaxSlewAccel = rates[3]
  /\ kZoom = Q(60, 10)
  /\ kEyes = EyesOf(40)
  /\ classifierPyrCount = 0
  /\ \E b \in HarnessBounds, a \in HarnessAspects, ds \in dsValues :
       roi = Construct(b, a, ds[1], ds[2])
  /\ faces_cpu = <<>>
  /\ faceBounds = Rect(0, 0, 0, 0)
  /\ scaleLocals = <<>>
  /\ warpSrc = <<>>
  /\ frames = 0

InitController == InitHarness(HarnessDs)

\* roi << rect
ObserveCall ==
  /\ frames < MaxObserves
  /\ \E rect \in HarnessRects :
       /\ faces_cpu' = <<rect>>
       /\ faceBounds' = rect
       /\ roi' = Observe(roi, ToPrec(rect))
  /\ scaleLocals' = <<>>
  /\ frames' = frames + 1
  /\ UNCHANGED <<globals, warpSrc>>

\* roi.scale<prec>(factor, verticalPositioning)
ScaleCall ==
  /\ \E factor \in HarnessFactors, verticalPositioning \in HarnessBiases :
       scaleLocals' = ScaleSteps(roi, factor, verticalPositioning)
  /\ UNCHANGED <<globals, roi, faces_cpu, faceBounds, warpSrc, frames>>

NextController == ObserveCall \/ ScaleCall

SpecController == InitController /\ [][NextController]_vars

\* the controller with the velocities starting at 0
InitVel == InitHarness({<<Zero, Zero>>})

SpecVel == InitVel /\ [][NextController]_vars

\* the same rectangle observed on every tick, the velocities starting at 0
InitConv ==
  /\ \E rates \in HarnessRates :
       /\ kLPFSlewRate = rates[1]
       /\ kBoundedMaxSlew = rates[2]
       /\ kBoundedMaxSlewAccel = rates[3]
  /\ kZoom = Q(60, 10)
  /\ kEyes = EyesOf(40)
  /\ classifierPyrCount = 0
  /\ \E b \in HarnessBounds, a \in HarnessAspects :
       roi = Construct(b, a, Zero, Zero)
  /\ \E rect \in HarnessRects :
       /\ faces_cpu = <<rect>>
       /\ faceBounds = rect
  /\ scaleLocals = <<>>
  /\ warpSrc = <<>>
  /\ frames = 0

\* roi << faceBounds, with the rectangle of the tick before
ObserveSame ==
  /\ frames < MaxTicks
  /\ roi' = Observe(roi, ToPrec(faceBounds))
  /\ frames' = frames + 1
  /\ UNCHANGED <<globals, faces_cpu, faceBounds, scaleLocals, warpSrc>>

NextConv == ObserveSame

SpecConv == InitConv /\ [][NextConv]_vars

----------------------------------------------------------------------------
(* Properties of scale *)

\* scale has been called
Cropped == Len(scaleLocals) = 5

\* clamp i (1 left, 2 top, 3 right, 4 bottom) fired in the last call of scale
ClampFired(i) == scaleLocals[i + 1] # scaleLocals[i]

CenterOf(l) == <<Add(l.x, Div(l.width, Two)), Add(l.y, Div(l.height, Two))>>

Inside(l, b) ==
  /\ Le(b.x, l.x)
  /\ Le(b.y, l.y)
  /\ Le(Add(l.x, l.width), Add(b.x, b.width))
  /\ Le(Add(l.y, l.height), Add(b.y, b.height))

Positive(l) == Lt(Zero, l.width) /\ Lt(Zero, l.height)

\* C1: a rectangle returned by scale with positive width and height lies inside
\* the bounds the controller was constructed with, wherever their origin is.
C1_Containment == Cropped /\ Positive(xmit) => Inside(xmit, roi.bounds_)

\* C2: at every point of scale, whichever clamps have fired, width = aspect * height.
C2_AspectPreserved ==
  Cropped => \A i \in 1..5 : scaleLocals[i].width = Mul(roi.aspect_, scaleLocals[i].height)

\* a left or top clamp and a right or bottom clamp both fired, and the result is a
\* rectangle with positive sides
C2_Witness ==
  /\ Cropped
  /\ ClampFired(1) \/ ClampFired(2)
  /\ ClampFired(3) \/ ClampFired(4)
  /\ Positive(xmit)

\* C9: every clamp that fires leaves the center of the rectangle where it was,
\* on both axes.
C9_CenterPreserved ==
  Cropped => \A i \in 1..4 : ClampFired(i) => CenterOf(scaleLocals[i + 1]) = CenterOf(scaleLocals[i])

----------------------------------------------------------------------------
(* Properties of the smoothers *)

\* this step fed faceBounds' to roi
Observed == frames' = frames + 1 /\ Len(faces_cpu') > 0

\* the bounded-acceleration stage went from old to new on target t without crossing it
NoOvershoot(old, new, t) ==
  /\ Lt(t, old.s_) => Le(t, new.s_)
  /\ Lt(old.s_, t) => Le(new.s_, t)
  /\ t = old.s_ => new = old

\* C3: a bounded-acceleration update never takes s_ across its target (neither
\* assert of operator<< fails), and changes nothing when s_ is at the target.
C3_NoOvershoot ==
  [][Observed =>
       /\ NoOvershoot(roi.centerX_.r_, roi'.centerX_.r_, TargetX(ToPrec(faceBounds')))
       /\ NoOvershoot(roi.centerY_.r_, roi'.centerY_.r_, TargetY(ToPrec(faceBounds')))]_vars

\* a moving bounded-acceleration stage stands exactly on the target it was last fed
C3_Witness ==
  /\ frames > 0
  /\ roi.centerX_.r_.s_ = TargetX(ToPrec(faceBounds))
  /\ Lt(roi.centerX_.r_.ds_, Zero)

\* C4: with the velocities starting at 0 and the caps fixed and positive, |ds_| never
\* exceeds kBoundedMaxSlew.
C4_VelocityBound ==
  /\ Le(AbsQ(roi.centerX_.r_.ds_), kBoundedMaxSlew)
  /\ Le(AbsQ(roi.centerY_.r_.ds_), kBoundedMaxSlew)

\* after two updates or more a stage moves at full speed
C4_Witness ==
  /\ frames >= 2
  /\ AbsQ(roi.centerX_.r_.ds_) = kBoundedMaxSlew

\* ticks within which the stages are required to have reached the observed rectangle
ConvergeTicks == 8

\* C5: with the same rectangle observed on every tick, after ConvergeTicks ticks the
\* bounded-acceleration stages of center-x and center-y stand on the rectangle's center.
C5_Converged ==
  frames >= ConvergeTicks =>
    /\ roi.centerX_.r_.s_ = TargetX(ToPrec(faceBounds))
    /\ roi.centerY_.r_.s_ = TargetY(ToPrec(faceBounds))

----------------------------------------------------------------------------
(* Properties of the frame loop *)

\* this step was a loop iteration in which nothing was detected
NoDetection == frames' = frames + 1 /\ Len(faces_cpu') = 0

\* C6: a tick without detections leaves every smoother of the controller as it was
\* (values and velocities), and the crop of the tick is the crop of the tick before
\* when that one was taken with the zoom and bias now in force.
C6_Hold ==
  [][NoDetection =>
       /\ roi' = roi
       /\ (Cropped /\ xmit = ScaleResult(ScaleSteps(roi, kZoom, kEyes))) => scaleLocals'[5] = xmit]_vars

\* a tick without detections after a tick that fed the controller
C6_Witness ==
  /\ frames = 2
  /\ Len(faces_cpu) = 0
  /\ roi.size_.s_ # Mul(roi.bounds_.width, roi.bounds_.height)
  /\ roi.centerX_.r_.s_ # Add(roi.bounds_.x, Div(roi.bounds_.width, Two))

\* C7: a rectangle with a side that is zero or negative is not handed to
\* getAffineTransform.
C7_DegenerateSignalled == Cropped /\ ~Positive(xmit) => warpSrc # WarpPoints(xmit)

\* C8: whenever a frame feeds the smoothers, both caps are positive and the low-pass
\* coefficient is in (0, 1].
C8_ValidRates ==
  [][Observed =>
       /\ Lt(Zero, kBoundedMaxSlew)
       /\ Lt(Zero, kBoundedMaxSlewAccel)
       /\ Lt(Zero, kLPFSlewRate)
       /\ Le(kLPFSlewRate, One)]_vars

\* s * (1 - kLPFSlewRate) + input * kLPFSlewRate
LowPassOf(s, input) == Add(Mul(s, Sub(One, kLPFSlewRate)), Mul(input, kLPFSlewRate))

\* a two-stage chain went from old to new on target t: the bounded-acceleration stage
\* was fed t, then the low-pass stage was fed the new value of that stage
ChainFed(old, new, t) ==
  /\ "r_" \in DOMAIN old
  /\ new.r_ = BoundedAccelFeed(old.r_, t)
  /\ new.s_.s_ = LowPassOf(old.s_.s_, new.r_.s_)

\* h is the square root of q rounded down to a multiple of 1/SqrtDen
IsSqrt(h, q) ==
  /\ Le(Zero, h)
  /\ Le(Mul(h, h), q)
  /\ Lt(q, Mul(Add(h, Q(1, SqrtDen)), Add(h, Q(1, SqrtDen))))

\* the rectangle scale starts from in this step is built on the values v of the
\* center-x, center-y and size smoothers
ReadBack(vx, vy, vsize) ==
  LET l == scaleLocals'[1]
  IN /\ Add(l.x, Div(l.width, Two)) = vx
     /\ Add(l.y, Mul(l.height, kEyes)) = vy
     /\ IsSqrt(l.height, Div(Mul(vsize, kZoom), roi.aspect_))

\* C10: center-x, center-y and size each go through a two-stage chain, and
\* the value read back is the low-pass stage's.
C10_ThreeChains ==
  [][Observed =>
       /\ ChainFed(roi.centerX_, roi'.centerX_, TargetX(ToPrec(faceBounds')))
       /\ ChainFed(roi.centerY_, roi'.centerY_, TargetY(ToPrec(faceBounds')))
       /\ ChainFed(roi.size_, roi'.size_, TargetSize(ToPrec(faceBounds')))
       /\ ReadBack(roi'.centerX_.s_.s_, roi'.centerY_.s_.s_, roi'.size_.s_.s_)]_vars

\* C10, restated for the size: center-x and center-y each go through a two-stage chain; size goes
\* through a single low-pass stage fed the raw width * height; the value read back
\* for each of the three is the low-pass stage's.
C10_TwoChainsOneLowPass ==
  [][Observed =>
       /\ ChainFed(roi.centerX_, roi'.centerX_, TargetX(ToPrec(faceBounds')))
       /\ ChainFed(roi.centerY_, roi'.centerY_, TargetY(ToPrec(faceBounds')))
       /\ roi'.size_.s_ = LowPassOf(roi.size_.s_, TargetSize(ToPrec(faceBounds')))
       /\ ReadBack(roi'.centerX_.s_.s_, roi'.centerY_.s_.s_, roi'.size_.s_)]_vars

\* after a frame with a detection the two stages of the center-x chain and the
\* target are three different values
C10_Witness ==
  /\ frames > 0
  /\ Len(faces_cpu) > 0
  /\ roi.centerX_.r_.s_ # roi.centerX_.s_.s_
  /\ roi.centerX_.r_.s_ # TargetX(ToPrec(faceBounds))
  /\ roi.size_.s_ # TargetSize(ToPrec(faceBounds))

====
